---- MODULE Spec2Model ----
(***************************************************************************)
(* Model of the signal-armed debug endpoint of postfinance/profiler.       *)
(*                                                                         *)
(* Context-based variant (src/profiler.go, lines 207-384):                 *)
(*   Start(ctx) -> watch-loop goroutine -> startEndpoint(ctx) -> listener  *)
(*   goroutine.  net/http, os/signal, context and time are modelled by     *)
(*   their documented behaviour; time is abstracted to "a timer may fire". *)
(*   Specifications Spec, FairSpecNoTimer, FairSpec.                       *)
(*                                                                         *)
(* Start()/Stop() variant with the CompareAndSwap flag                     *)
(* (src/unnamed/part_003): Start -> start() goroutine, Stop -> p.stopC.    *)
(*   Its loop body, disableSignals and startEndpoint are the code of the   *)
(*   context-based variant up to the texts of the session events, and are  *)
(*   modelled by the same actions.  Specifications CasSpec, CasFairSpec.   *)
(*                                                                         *)
(* Start()/Stop() variant with sync.Once (src/profiler.go, lines 1-205):   *)
(*   Start -> goroutine -> p.once.Do(p.handler), Stop -> p.stop, p.done.   *)
(*   The listener goroutine and srv.Shutdown are modelled by the actions   *)
(*   of the context-based variant.  Specification OnceSpec.                *)
(*                                                                         *)
(* CfgSpec is the context-based variant constructed with one of several    *)
(* listen addresses, with calls of the accessor Address().                 *)
(***************************************************************************)
EXTENDS Integers, Sequences, FiniteSets, TLC

\* ------------------------------------------------------------------ bounds
MaxLoops      == 2   \* watch loops spawned by Start(ctx)
MaxSessions   == 2   \* signals that arm the endpoint
MaxConns      == 1   \* concurrently open requests
NumHooks      == 2   \* hooks registered with WithHooks

\* -------------------------------------------------------- program constants
SigCap == 1          \* make(chan os.Signal, 1)

Hooks == 1..NumHooks

VARIABLES
    running,     \* Profiler.running (sync.Mutex): TRUE = locked
    cancelled,   \* cancelled[c]: the caller's context c is cancelled
    refused,     \* a Start(ctx) call has found the lock held and returned
    loops,       \* the goroutines spawned by Start, in spawn order
    sessions,    \* the calls of startEndpoint, in call order
    port,        \* 0 = p.address is free, s = bound by the server of session s
    hookActive,  \* number of hook calls currently executing
    hookCalls,   \* hookCalls[h]: completed PreStart/PostShutdown calls of hook h
    trace,       \* the events the watch loops handed to p.evt, in order
    started,     \* Start()/Stop() variant: Profiler.started (atomic.Int32)
    stops,       \* the Stop() calls that passed their test, in call order
    stopNoop,    \* a Stop() call has found nothing to stop and returned
    once,        \* sync.Once variant: the Once object p.once points to
    onces,       \* the Once objects: "new", "running" (inside Do), "done"
    onceOf,      \* onceOf[i]: the Once object goroutine i read from p.once
    config,      \* Profiler.signal, address, timeout, hooks, evt
    addrRet      \* what the last Address() call returned, and in which phase

\* the state only the sync.Once variant has
onceVars == <<once, onces, onceOf>>

\* the state of the Stop() API, which the context-based variant does not have
casVars == <<started, stops, stopNoop>>

\* the configuration and the caller of the accessor
cfgVars == <<config, addrRet>>

vars == <<running, cancelled, refused, loops, sessions, port, hookActive,
          hookCalls, trace, casVars, onceVars, cfgVars>>

Ctxs    == DOMAIN cancelled
LoopIds == DOMAIN loops
SessIds == DOMAIN sessions

\* ------------------------------------------------------------------ events
InfoEvent  == "Info"
ErrorEvent == "Error"

\* id is the goroutine (loop events) or session (endpoint events) that emits
Evt(t, m, n) == [type |-> t, msg |-> m, id |-> n]

MsgStartHandler    == "start profiler signal handler"
MsgStopHandler     == "stop profiler signal handler"
MsgHandlerStopped  == "profiler signal handler stopped"
MsgStartEndpoint   == "start debug endpoint"
MsgStopEndpoint    == "stop debug endpoint"
MsgShutdownErr     == "shutdown debug endpoint"
MsgEndpointStopped == "debug endpoint stopped"

ErrServerClosed == "ErrServerClosed"
ErrBind         == "bind: address already in use"

\* ----------------------------------------------------------- configuration
defaultTimeout == 30         \* minutes
defaultListen  == ":6666"

\* New() without options: the defaults, the hooks in registration order
DefaultConfig ==
    [signal |-> "SIGUSR1", address |-> defaultListen, timeout |-> defaultTimeout,
     hooks |-> [h \in Hooks |-> h], evt |-> "DefaultEventHandler"]

\* the option WithAddress(a) applied to the Profiler under construction
WithAddress(cfg, a) == [cfg EXCEPT !.address = a]

\* no Address() call has returned yet
NoAddress == [val |-> "none", at |-> "none"]

\* ------------------------------------------------------------ constructors
\* the goroutine body of Start: sigC, wg and the derived context are locals
NewLoop(c) ==
    [pc |-> "start", ctx |-> c, sub |-> FALSE, sigC |-> 0, wg |-> 0,
     own |-> FALSE, sid |-> 0]

\* the locals of one startEndpoint call: srv, shutdown, timer, the listener
\* goroutine (lpc, hk), and what hooks, clients and p.evt observed of it
NewSession(i) ==
    [loop |-> i, lpc |-> "evtStart", hk |-> 1,
     pre |-> [h \in Hooks |-> 0], post |-> [h \in Hooks |-> 0],
     timer |-> "running", cause |-> "none",
     inShutdown |-> FALSE, lis |-> "none", err |-> "none",
     done |-> FALSE, conns |-> 0, served |-> FALSE, sderr |-> FALSE,
     ret |-> FALSE, evts |-> <<>>]

\* startEndpoint has returned and its goroutine has ended: the locals are
\* gone; what remains are the connections the server left open
Returned(r) ==
    IF r.lpc = "end"
      THEN [NewSession(r.loop) EXCEPT !.lpc = "end", !.timer = "gone",
                                      !.ret = TRUE, !.conns = r.conns]
      ELSE [r EXCEPT !.ret = TRUE]

Init ==
    /\ running = FALSE
    /\ cancelled = <<>>
    /\ refused = FALSE
    /\ loops = <<>>
    /\ sessions = <<>>
    /\ port = 0
    /\ hookActive = 0
    /\ hookCalls = [h \in Hooks |-> [pre |-> 0, post |-> 0]]
    /\ trace = <<>>
    /\ started = 0
    /\ stops = <<>>
    /\ stopNoop = FALSE
    /\ once = 0
    /\ onces = <<>>
    /\ onceOf = <<>>
    /\ config = DefaultConfig
    /\ addrRet = NoAddress

\* ------------------------------------------------------------------ Start
\* mutant: the lock is taken whether or not it is held
TryLock_Always(locked) == TRUE

\* p.running.TryLock(): succeeds iff the mutex is not held
TryLock(locked) == ~locked

\* Start(ctx), with a context used before or a new one (c = Len(cancelled)+1):
\* return when the lock is held, else spawn the watch loop
Start(c) ==
    IF TryLock(running)
      THEN /\ Len(loops) < MaxLoops
           /\ running' = TRUE
           /\ loops' = Append(loops, NewLoop(c))
           /\ cancelled' = IF c \in Ctxs THEN cancelled
                                         ELSE Append(cancelled, FALSE)
           /\ UNCHANGED <<refused, sessions, port, hookActive, hookCalls, trace>>
      ELSE /\ refused' = TRUE
           /\ UNCHANGED <<running, cancelled, loops, sessions, port,
                          hookActive, hookCalls, trace>>

\* the caller cancels a context it passed to Start
Cancel(c) ==
    /\ ~cancelled[c]
    /\ cancelled' = [cancelled EXCEPT ![c] = TRUE]
    /\ UNCHANGED <<running, refused, loops, sessions, port, hookActive,
                   hookCalls, trace>>

\* the OS delivers p.signal: os/signal does a non-blocking send to every
\* channel registered with signal.Notify.  A delivery that reaches no channel
\* (nothing subscribed, or the buffer full) changes nothing in the program
\* and is a stuttering step.
Signal ==
    /\ Len(sessions) < MaxSessions
    /\ \E i \in LoopIds : loops[i].sub /\ loops[i].sigC < SigCap
    /\ loops' = [i \in LoopIds |->
                   IF loops[i].sub /\ loops[i].sigC < SigCap
                     THEN [loops[i] EXCEPT !.sigC = @ + 1]
                     ELSE loops[i]]
    /\ UNCHANGED <<running, cancelled, refused, sessions, port, hookActive,
                   hookCalls, trace>>

\* ------------------------------------------------------------- watch loop
\* mutant: the derived context is never done
CtxDone_Never(i) == FALSE

\* ctx.Done() of the context derived in the goroutine
CtxDone(i) == cancelled[loops[i].ctx] \/ loops[i].own

\* mutant: the start event is emitted twice
StartEvents_Twice(i) ==
    <<Evt(InfoEvent, MsgStartHandler, i), Evt(InfoEvent, MsgStartHandler, i)>>

\* p.evt(InfoEvent, "start profiler signal handler", ...)
StartEvents(i) == <<Evt(InfoEvent, MsgStartHandler, i)>>

\* mutant: the stop event is not emitted
StopEvents_None(i) == <<>>

\* p.evt(InfoEvent, "stop profiler signal handler", ...)
StopEvents(i) == <<Evt(InfoEvent, MsgStopHandler, i)>>

\* mutant: the loop waits again without calling signal.Notify
AfterSession_NoNotify == "select"

\* where the loop continues when startEndpoint has returned
AfterSession == "notify"

LoopStart(i) ==
    /\ loops[i].pc = "start"
    /\ trace' = trace \o StartEvents(i)
    /\ loops' = [loops EXCEPT ![i].pc = "notify"]
    /\ UNCHANGED <<running, cancelled, refused, sessions, port, hookActive,
                   hookCalls>>

LoopNotify(i) ==
    /\ loops[i].pc = "notify"
    /\ loops' = [loops EXCEPT ![i].sub = TRUE, ![i].pc = "select"]
    /\ UNCHANGED <<running, cancelled, refused, sessions, port, hookActive,
                   hookCalls, trace>>

\* case <-sigC
LoopRecvSignal(i) ==
    /\ loops[i].pc = "select"
    /\ loops[i].sigC > 0
    /\ loops' = [loops EXCEPT ![i].sigC = @ - 1, ![i].pc = "sigStop"]
    /\ UNCHANGED <<running, cancelled, refused, sessions, port, hookActive,
                   hookCalls, trace>>

\* case <-ctx.Done(); p.evt("stop profiler signal handler")
LoopRecvDone(i) ==
    /\ loops[i].pc = "select"
    /\ CtxDone(i)
    /\ trace' = trace \o StopEvents(i)
    /\ loops' = [loops EXCEPT ![i].pc = "stopStop"]
    /\ UNCHANGED <<running, cancelled, refused, sessions, port, hookActive,
                   hookCalls>>

\* disableSignals: signal.Stop(sigC)
DisableSignalsStop(i) ==
    /\ loops[i].pc \in {"sigStop", "stopStop"}
    /\ loops' = [loops EXCEPT ![i].sub = FALSE,
                   ![i].pc = IF @ = "sigStop" THEN "sigDrain" ELSE "stopDrain"]
    /\ UNCHANGED <<running, cancelled, refused, sessions, port, hookActive,
                   hookCalls, trace>>

\* mutant: the signal channel is not drained
Drain_Keep(n) == n

\* select { case <-sigC: default: } on a channel of capacity SigCap holding
\* n signals: one is taken if there is one
Drain(n) == IF n > 0 THEN n - 1 ELSE 0

\* disableSignals: drain the signal channel
DisableSignalsDrain(i) ==
    /\ loops[i].pc \in {"sigDrain", "stopDrain"}
    /\ loops' = [loops EXCEPT ![i].sigC = Drain(@),
                   ![i].pc = IF @ = "sigDrain" THEN "startEndpoint"
                                               ELSE "cancelWait"]
    /\ UNCHANGED <<running, cancelled, refused, sessions, port, hookActive,
                   hookCalls, trace>>

\* cancel(); wg.Wait(); p.evt("profiler signal handler stopped")
LoopCancelWait(i) ==
    /\ loops[i].pc = "cancelWait"
    /\ loops[i].wg = 0
    /\ trace' = trace \o <<Evt(InfoEvent, MsgHandlerStopped, i)>>
    /\ loops' = [loops EXCEPT ![i].own = TRUE, ![i].pc = "unlock"]
    /\ UNCHANGED <<running, cancelled, refused, sessions, port, hookActive,
                   hookCalls>>

\* mutant: the lock stays held when the goroutine returns
Unlock_Kept(locked) == locked

\* p.running.Unlock() by the holder: the mutex is free
Unlock(locked) == FALSE

\* return: the deferred p.running.Unlock(); the goroutine and its locals
\* are gone
LoopUnlock(i) ==
    /\ loops[i].pc = "unlock"
    /\ running' = Unlock(running)
    /\ loops' = [loops EXCEPT ![i] = [NewLoop(@.ctx) EXCEPT !.pc = "done"]]
    /\ UNCHANGED <<cancelled, refused, sessions, port, hookActive,
                   hookCalls, trace>>

\* ------------------------------------------------- startEndpoint (caller)
\* wg.Add(1); startEndpoint: make(shutdown), srv, go listener, time.NewTimer
StartEndpoint(i) ==
    /\ loops[i].pc = "startEndpoint"
    /\ sessions' = Append(sessions, NewSession(i))
    /\ loops' = [loops EXCEPT ![i].wg = @ + 1, ![i].sid = Len(sessions) + 1,
                              ![i].pc = "wait"]
    /\ UNCHANGED <<running, cancelled, refused, port, hookActive, hookCalls,
                   trace>>

\* the timeout timer of session s expires (time is abstracted)
TimerFire(s) ==
    /\ sessions[s].timer = "running"
    /\ sessions' = [sessions EXCEPT ![s].timer = "fired"]
    /\ UNCHANGED <<running, cancelled, refused, loops, port, hookActive,
                   hookCalls, trace>>

\* mutant: the select returns at once
SelectReady_Always(i) == {"timer", "ctx"}

\* mutant: the select has no case for ctx.Done()
SelectReady_TimerOnly(i) ==
    {c \in {"timer"} : sessions[loops[i].sid].timer = "fired"}

\* the cases of select { <-timer.C, <-ctx.Done() } that are ready
SelectReady(i) ==
    {c \in {"timer"} : sessions[loops[i].sid].timer = "fired"}
      \cup {c \in {"ctx"} : CtxDone(i)}

\* the select returns; p.evt("stop debug endpoint")
SessionSelect(i) ==
    LET s == loops[i].sid IN
    /\ loops[i].pc = "wait"
    /\ \E c \in SelectReady(i) :
         sessions' = [sessions EXCEPT
             ![s].cause = c,
             ![s].timer = IF c = "ctx" /\ @ = "running" THEN "stopped" ELSE @,
             ![s].evts = Append(@, Evt(InfoEvent, MsgStopEndpoint, s))]
    /\ loops' = [loops EXCEPT ![i].pc = "shutdown"]
    /\ UNCHANGED <<running, cancelled, refused, port, hookActive, hookCalls,
                   trace>>

\* srv.Shutdown(sCtx) begins: inShutdown is set and the listeners are closed
SrvShutdown(i) ==
    LET s == loops[i].sid IN
    /\ loops[i].pc = "shutdown"
    /\ sessions' = [sessions EXCEPT ![s].inShutdown = TRUE,
                      ![s].lis = IF @ = "open" THEN "closed" ELSE @]
    /\ port' = IF port = s THEN 0 ELSE port
    /\ loops' = [loops EXCEPT ![i].pc = "shutWait"]
    /\ UNCHANGED <<running, cancelled, refused, hookActive, hookCalls, trace>>

\* srv.Shutdown returns nil: no connection is active any more
ShutdownReturn(i) ==
    /\ loops[i].pc = "shutWait"
    /\ sessions[loops[i].sid].conns = 0
    /\ loops' = [loops EXCEPT ![i].pc = "recv"]
    /\ UNCHANGED <<running, cancelled, refused, sessions, port, hookActive,
                   hookCalls, trace>>

\* mutant: the error of srv.Shutdown is dropped
ShutdownEvents_None(s) == <<>>

\* if err := srv.Shutdown(sCtx); err != nil { p.evt(ErrorEvent, ...) }
ShutdownEvents(s) == <<Evt(ErrorEvent, MsgShutdownErr, s)>>

\* sCtx expires while a connection is active: srv.Shutdown returns the
\* context's error and leaves the connection open; p.evt(ErrorEvent, ...)
ShutdownDeadline(i) ==
    LET s == loops[i].sid IN
    /\ loops[i].pc = "shutWait"
    /\ sessions[s].conns > 0
    /\ sessions' = [sessions EXCEPT ![s].sderr = TRUE,
                      ![s].evts = @ \o ShutdownEvents(s)]
    /\ loops' = [loops EXCEPT ![i].pc = "recv"]
    /\ UNCHANGED <<running, cancelled, refused, port, hookActive, hookCalls,
                   trace>>

\* mutant: startEndpoint does not wait for the listener goroutine
ShutdownClosed_NoWait(s) == TRUE

\* <-shutdown is ready once the listener goroutine has closed the channel
ShutdownClosed(s) == sessions[s].done

\* <-shutdown; p.evt("debug endpoint stopped")
EndpointStopped(i) ==
    LET s == loops[i].sid IN
    /\ loops[i].pc = "recv"
    /\ ShutdownClosed(s)
    /\ sessions' = [sessions EXCEPT
                      ![s].evts = Append(@, Evt(InfoEvent, MsgEndpointStopped, s))]
    /\ loops' = [loops EXCEPT ![i].pc = "return"]
    /\ UNCHANGED <<running, cancelled, refused, port, hookActive, hookCalls,
                   trace>>

\* startEndpoint returns; wg.Done()
EndpointReturn(i) ==
    LET s == loops[i].sid IN
    /\ loops[i].pc = "return"
    /\ sessions' = [sessions EXCEPT ![s] = Returned(@)]
    /\ loops' = [loops EXCEPT ![i].wg = @ - 1, ![i].pc = AfterSession]
    /\ UNCHANGED <<running, cancelled, refused, port, hookActive, hookCalls,
                   trace>>

\* ------------------------------------------------------ listener goroutine
\* a loop over p.hooks starts at its first hook, or is skipped when empty
HookLoop(pc, next) == IF NumHooks > 0 THEN pc ELSE next

\* mutant: the loops over p.hooks run from the last hook to the first
HookAt_Reversed(k) == NumHooks + 1 - k

\* for _, h := range p.hooks: the k-th iteration has the k-th registered hook
HookAt(k) == k

\* mutant: the PreStart loop ends after its first hook
AfterPreStart_First(h) == "listen"

\* after hook h of the PreStart loop has returned
AfterPreStart(h) == IF h < NumHooks THEN "pre" ELSE "listen"

\* mutant: the PostShutdown hooks are skipped after a failed start
AfterListenAndServe_SkipOnError(err) ==
    IF err = ErrServerClosed THEN HookLoop("post", "close") ELSE "close"

\* after srv.ListenAndServe() has returned err
AfterListenAndServe(err) == HookLoop("post", "close")

\* after hook h of the PostShutdown loop has returned
AfterPostShutdown(h) == IF h < NumHooks THEN "post" ELSE "close"

\* mutant: the test of the error is inverted
ServeEvents_Inverted(s, err) ==
    IF err = ErrServerClosed
      THEN <<Evt(ErrorEvent, MsgStartEndpoint, s)>>
      ELSE <<>>

\* if err := srv.ListenAndServe(); !errors.Is(err, http.ErrServerClosed)
ServeEvents(s, err) ==
    IF err # ErrServerClosed
      THEN <<Evt(ErrorEvent, MsgStartEndpoint, s)>>
      ELSE <<>>

\* p.evt("start debug endpoint")
ListenerStart(s) ==
    /\ sessions[s].lpc = "evtStart"
    /\ sessions' = [sessions EXCEPT
                      ![s].evts = Append(@, Evt(InfoEvent, MsgStartEndpoint, s)),
                      ![s].lpc = HookLoop("pre", "listen")]
    /\ UNCHANGED <<running, cancelled, refused, loops, port, hookActive,
                   hookCalls, trace>>

\* h.PreStart() is called
PreStartCall(s) ==
    /\ sessions[s].lpc = "pre"
    /\ hookActive' = hookActive + 1
    /\ sessions' = [sessions EXCEPT ![s].lpc = "preRet"]
    /\ UNCHANGED <<running, cancelled, refused, loops, port, hookCalls, trace>>

\* h.PreStart() returns
PreStartReturn(s) ==
    LET k == sessions[s].hk
        h == HookAt(k)
    IN
    /\ sessions[s].lpc = "preRet"
    /\ hookActive' = hookActive - 1
    /\ hookCalls' = [hookCalls EXCEPT ![h].pre = @ + 1]
    /\ sessions' = [sessions EXCEPT ![s].pre[h] = @ + 1,
                      ![s].hk = IF AfterPreStart(k) = "pre" THEN k + 1 ELSE 1,
                      ![s].lpc = AfterPreStart(k)]
    /\ UNCHANGED <<running, cancelled, refused, loops, port, trace>>

\* srv.ListenAndServe() is called: it returns ErrServerClosed at once when
\* Shutdown was already called
ListenAndServe(s) ==
    /\ sessions[s].lpc = "listen"
    /\ sessions' =
         IF sessions[s].inShutdown
           THEN [sessions EXCEPT ![s].err = ErrServerClosed,
                   ![s].evts = @ \o ServeEvents(s, ErrServerClosed),
                   ![s].lpc = AfterListenAndServe(ErrServerClosed)]
           ELSE [sessions EXCEPT ![s].lpc = "bind"]
    /\ UNCHANGED <<running, cancelled, refused, loops, port, hookActive,
                   hookCalls, trace>>

\* net.Listen and srv.Serve: the bind error when the address is taken (by
\* another server of this process or, busy, by anyone else); ErrServerClosed
\* when Shutdown was called meanwhile (the listener is closed again at once);
\* otherwise the server accepts connections
NetListen(s) ==
    /\ sessions[s].lpc = "bind"
    /\ \E busy \in BOOLEAN :
         LET err == IF busy \/ port # 0 THEN ErrBind
                    ELSE IF sessions[s].inShutdown THEN ErrServerClosed
                    ELSE "none"
         IN IF err = "none"
              THEN /\ sessions' = [sessions EXCEPT ![s].lis = "open",
                                                   ![s].lpc = "serve"]
                   /\ port' = s
              ELSE /\ sessions' = [sessions EXCEPT ![s].err = err,
                                     ![s].evts = @ \o ServeEvents(s, err),
                                     ![s].lpc = AfterListenAndServe(err)]
                   /\ UNCHANGED port
    /\ UNCHANGED <<running, cancelled, refused, loops, hookActive, hookCalls,
                   trace>>

\* the accept loop ends with ErrServerClosed once Shutdown closed the listener
ServeReturn(s) ==
    /\ sessions[s].lpc = "serve"
    /\ sessions[s].inShutdown
    /\ sessions' = [sessions EXCEPT ![s].err = ErrServerClosed,
                      ![s].evts = @ \o ServeEvents(s, ErrServerClosed),
                      ![s].lpc = AfterListenAndServe(ErrServerClosed)]
    /\ UNCHANGED <<running, cancelled, refused, loops, port, hookActive,
                   hookCalls, trace>>

\* h.PostShutdown() is called
PostShutdownCall(s) ==
    /\ sessions[s].lpc = "post"
    /\ hookActive' = hookActive + 1
    /\ sessions' = [sessions EXCEPT ![s].lpc = "postRet"]
    /\ UNCHANGED <<running, cancelled, refused, loops, port, hookCalls, trace>>

\* h.PostShutdown() returns
PostShutdownReturn(s) ==
    LET k == sessions[s].hk
        h == HookAt(k)
    IN
    /\ sessions[s].lpc = "postRet"
    /\ hookActive' = hookActive - 1
    /\ hookCalls' = [hookCalls EXCEPT ![h].post = @ + 1]
    /\ sessions' = [sessions EXCEPT ![s].post[h] = @ + 1,
                      ![s].hk = IF AfterPostShutdown(k) = "post" THEN k + 1 ELSE 1,
                      ![s].lpc = AfterPostShutdown(k)]
    /\ UNCHANGED <<running, cancelled, refused, loops, port, trace>>

\* close(shutdown); the goroutine ends
CloseShutdown(s) ==
    /\ sessions[s].lpc = "close"
    /\ sessions' = [sessions EXCEPT ![s].done = TRUE, ![s].lpc = "end"]
    /\ UNCHANGED <<running, cancelled, refused, loops, port, hookActive,
                   hookCalls, trace>>

\* ---------------------------------------------------------------- clients
\* the connections open to the servers of this Profiler
OpenConns == {s \in SessIds : sessions[s].conns > 0}

RECURSIVE SumConns(_)
SumConns(S) ==
    IF S = {} THEN 0
    ELSE LET s == CHOOSE x \in S : TRUE
         IN sessions[s].conns + SumConns(S \ {s})

\* a client connects to the listening server and its request is served
Request(s) ==
    /\ sessions[s].lis = "open"
    /\ SumConns(OpenConns) < MaxConns
    /\ sessions' = [sessions EXCEPT ![s].conns = @ + 1, ![s].served = TRUE]
    /\ UNCHANGED <<running, cancelled, refused, loops, port, hookActive,
                   hookCalls, trace>>

\* a request completes and its connection is closed
RequestDone(s) ==
    /\ sessions[s].conns > 0
    /\ sessions' = [sessions EXCEPT ![s].conns = @ - 1]
    /\ UNCHANGED <<running, cancelled, refused, loops, port, hookActive,
                   hookCalls, trace>>

\* ------------------------------------------------------------------- Next
\* the steps of watch-loop goroutine i, startEndpoint included
LoopStep(i) ==
    \/ LoopStart(i)
    \/ LoopNotify(i)
    \/ LoopRecvSignal(i)
    \/ LoopRecvDone(i)
    \/ DisableSignalsStop(i)
    \/ DisableSignalsDrain(i)
    \/ StartEndpoint(i)
    \/ SessionSelect(i)
    \/ SrvShutdown(i)
    \/ ShutdownReturn(i)
    \/ ShutdownDeadline(i)
    \/ EndpointStopped(i)
    \/ EndpointReturn(i)
    \/ LoopCancelWait(i)
    \/ LoopUnlock(i)

\* the steps of the listener goroutine of session s
ListenerStep(s) ==
    \/ ListenerStart(s)
    \/ PreStartCall(s)
    \/ PreStartReturn(s)
    \/ ListenAndServe(s)
    \/ NetListen(s)
    \/ ServeReturn(s)
    \/ PostShutdownCall(s)
    \/ PostShutdownReturn(s)
    \/ CloseShutdown(s)

Next ==
    \/ \E c \in 1..(Len(cancelled) + 1) : Start(c) /\ UNCHANGED <<casVars, onceVars, cfgVars>>
    \/ \E c \in Ctxs : Cancel(c) /\ UNCHANGED <<casVars, onceVars, cfgVars>>
    \/ Signal /\ UNCHANGED <<casVars, onceVars, cfgVars>>
    \/ \E i \in LoopIds : LoopStart(i) /\ UNCHANGED <<casVars, onceVars, cfgVars>>
    \/ \E i \in LoopIds : LoopNotify(i) /\ UNCHANGED <<casVars, onceVars, cfgVars>>
    \/ \E i \in LoopIds : LoopRecvSignal(i) /\ UNCHANGED <<casVars, onceVars, cfgVars>>
    \/ \E i \in LoopIds : LoopRecvDone(i) /\ UNCHANGED <<casVars, onceVars, cfgVars>>
    \/ \E i \in LoopIds : DisableSignalsStop(i) /\ UNCHANGED <<casVars, onceVars, cfgVars>>
    \/ \E i \in LoopIds : DisableSignalsDrain(i) /\ UNCHANGED <<casVars, onceVars, cfgVars>>
    \/ \E i \in LoopIds : StartEndpoint(i) /\ UNCHANGED <<casVars, onceVars, cfgVars>>
    \/ \E i \in LoopIds : SessionSelect(i) /\ UNCHANGED <<casVars, onceVars, cfgVars>>
    \/ \E i \in LoopIds : SrvShutdown(i) /\ UNCHANGED <<casVars, onceVars, cfgVars>>
    \/ \E i \in LoopIds : ShutdownReturn(i) /\ UNCHANGED <<casVars, onceVars, cfgVars>>
    \/ \E i \in LoopIds : ShutdownDeadline(i) /\ UNCHANGED <<casVars, onceVars, cfgVars>>
    \/ \E i \in LoopIds : EndpointStopped(i) /\ UNCHANGED <<casVars, onceVars, cfgVars>>
    \/ \E i \in LoopIds : EndpointReturn(i) /\ UNCHANGED <<casVars, onceVars, cfgVars>>
    \/ \E i \in LoopIds : LoopCancelWait(i) /\ UNCHANGED <<casVars, onceVars, cfgVars>>
    \/ \E i \in LoopIds : LoopUnlock(i) /\ UNCHANGED <<casVars, onceVars, cfgVars>>
    \/ \E s \in SessIds : ListenerStart(s) /\ UNCHANGED <<casVars, onceVars, cfgVars>>
    \/ \E s \in SessIds : PreStartCall(s) /\ UNCHANGED <<casVars, onceVars, cfgVars>>
    \/ \E s \in SessIds : PreStartReturn(s) /\ UNCHANGED <<casVars, onceVars, cfgVars>>
    \/ \E s \in SessIds : ListenAndServe(s) /\ UNCHANGED <<casVars, onceVars, cfgVars>>
    \/ \E s \in SessIds : NetListen(s) /\ UNCHANGED <<casVars, onceVars, cfgVars>>
    \/ \E s \in SessIds : ServeReturn(s) /\ UNCHANGED <<casVars, onceVars, cfgVars>>
    \/ \E s \in SessIds : PostShutdownCall(s) /\ UNCHANGED <<casVars, onceVars, cfgVars>>
    \/ \E s \in SessIds : PostShutdownReturn(s) /\ UNCHANGED <<casVars, onceVars, cfgVars>>
    \/ \E s \in SessIds : CloseShutdown(s) /\ UNCHANGED <<casVars, onceVars, cfgVars>>
    \/ \E s \in SessIds : TimerFire(s) /\ UNCHANGED <<casVars, onceVars, cfgVars>>
    \/ \E s \in SessIds : Request(s) /\ UNCHANGED <<casVars, onceVars, cfgVars>>
    \/ \E s \in SessIds : RequestDone(s) /\ UNCHANGED <<casVars, onceVars, cfgVars>>

Spec == Init /\ [][Next]_vars

\* Scheduling: every goroutine that can take a step eventually takes one (the
\* deadline of sCtx, ShutdownDeadline, is a step of the loop).  Callers, the
\* OS and clients are under no obligation, and neither is the timeout timer.
Fairness ==
    /\ \A i \in 1..MaxLoops :
         WF_vars(i \in LoopIds /\ LoopStep(i) /\ UNCHANGED <<casVars, onceVars, cfgVars>>)
    /\ \A s \in 1..MaxSessions :
         WF_vars(s \in SessIds /\ ListenerStep(s) /\ UNCHANGED <<casVars, onceVars, cfgVars>>)

FairSpecNoTimer == Spec /\ Fairness

\* as FairSpecNoTimer, and a running timeout timer eventually expires
FairSpec ==
    /\ Spec
    /\ Fairness
    /\ \A s \in 1..MaxSessions :
         WF_vars(s \in SessIds /\ TimerFire(s) /\ UNCHANGED <<casVars, onceVars, cfgVars>>)

\* ===================================================================
\* Start()/Stop() variant with the CompareAndSwap flag (src/unnamed/part_003)
\* ===================================================================
\* the Stop() calls the model follows
MaxStops == 2

\* mutant: the swap succeeds whatever the value
CompareAndSwap_Always(v, old) == TRUE

\* p.started.CompareAndSwap(old, new) succeeds iff the value is old
CompareAndSwap(v, old) == v = old

\* New: started = 0, stopC made; the contexts of the loops derive from
\* context.Background(), context 1, which nobody cancels
CasInit ==
    /\ running = FALSE
    /\ cancelled = <<FALSE>>
    /\ refused = FALSE
    /\ loops = <<>>
    /\ sessions = <<>>
    /\ port = 0
    /\ hookActive = 0
    /\ hookCalls = [h \in Hooks |-> [pre |-> 0, post |-> 0]]
    /\ trace = <<>>
    /\ started = 0
    /\ stops = <<>>
    /\ stopNoop = FALSE
    /\ once = 0
    /\ onces = <<>>
    /\ onceOf = <<>>
    /\ config = DefaultConfig
    /\ addrRet = NoAddress

\* Start(): if started.CompareAndSwap(0, 1) { go p.start() }
CasStart ==
    IF CompareAndSwap(started, 0)
      THEN /\ Len(loops) < MaxLoops
           /\ started' = 1
           /\ loops' = Append(loops, [NewLoop(1) EXCEPT !.pc = "lock"])
           /\ UNCHANGED <<running, cancelled, refused, sessions, port,
                          hookActive, hookCalls, trace, stops, stopNoop>>
      ELSE /\ refused' = TRUE
           /\ UNCHANGED <<running, cancelled, loops, sessions, port,
                          hookActive, hookCalls, trace, casVars>>

\* Stop(): if started.CompareAndSwap(1, 0) { p.stopC <- struct{}{} }: the
\* caller blocks in the send until a loop receives
CasStop ==
    IF CompareAndSwap(started, 1)
      THEN /\ Len(stops) < MaxStops
           /\ started' = 0
           /\ stops' = Append(stops, [pc |-> "send", by |-> 0])
           /\ UNCHANGED <<running, cancelled, refused, loops, sessions, port,
                          hookActive, hookCalls, trace, stopNoop>>
      ELSE /\ stopNoop' = TRUE
           /\ UNCHANGED <<running, cancelled, refused, loops, sessions, port,
                          hookActive, hookCalls, trace, started, stops>>

\* mutant: Lock does not wait for the holder
LockReady_Always(locked) == TRUE

\* p.running.Lock() goes on when the mutex is free
LockReady(locked) == ~locked

\* start(): p.running.Lock() blocks while an earlier loop holds the mutex
CasLock(i) ==
    /\ loops[i].pc = "lock"
    /\ LockReady(running)
    /\ running' = TRUE
    /\ loops' = [loops EXCEPT ![i].pc = "start"]
    /\ UNCHANGED <<cancelled, refused, sessions, port, hookActive, hookCalls,
                   trace, casVars>>

\* mutant: the select has no case for p.stopC
StopReady_None == {}

\* the Stop() calls blocked in their send on the unbuffered p.stopC
StopReady == {k \in DOMAIN stops : stops[k].pc = "send"}

\* case <-p.stopC; p.evt("stop profiler signal handler"): the send of one
\* Stop() call completes and that call returns
CasRecvStop(i) ==
    /\ loops[i].pc = "select"
    /\ \E k \in StopReady :
         stops' = [stops EXCEPT ![k] = [pc |-> "ret", by |-> i]]
    /\ trace' = trace \o StopEvents(i)
    /\ loops' = [loops EXCEPT ![i].pc = "stopStop"]
    /\ UNCHANGED <<running, cancelled, refused, sessions, port, hookActive,
                   hookCalls, started, stopNoop>>

\* the steps of the goroutine start() i, startEndpoint included
CasLoopStep(i) ==
    \/ CasRecvStop(i)
    \/ /\ \/ CasLock(i)
          \/ LoopStart(i)
          \/ LoopNotify(i)
          \/ LoopRecvSignal(i)
          \/ DisableSignalsStop(i)
          \/ DisableSignalsDrain(i)
          \/ StartEndpoint(i)
          \/ SessionSelect(i)
          \/ SrvShutdown(i)
          \/ ShutdownReturn(i)
          \/ ShutdownDeadline(i)
          \/ EndpointStopped(i)
          \/ EndpointReturn(i)
          \/ LoopCancelWait(i)
          \/ LoopUnlock(i)
       /\ UNCHANGED casVars

CasNext ==
    \/ CasStart /\ UNCHANGED <<onceVars, cfgVars>>
    \/ CasStop /\ UNCHANGED <<onceVars, cfgVars>>
    \/ Signal /\ UNCHANGED <<casVars, onceVars, cfgVars>>
    \/ \E i \in LoopIds : CasLock(i) /\ UNCHANGED <<onceVars, cfgVars>>
    \/ \E i \in LoopIds : LoopStart(i) /\ UNCHANGED <<casVars, onceVars, cfgVars>>
    \/ \E i \in LoopIds : LoopNotify(i) /\ UNCHANGED <<casVars, onceVars, cfgVars>>
    \/ \E i \in LoopIds : LoopRecvSignal(i) /\ UNCHANGED <<casVars, onceVars, cfgVars>>
    \/ \E i \in LoopIds : CasRecvStop(i) /\ UNCHANGED <<onceVars, cfgVars>>
    \/ \E i \in LoopIds : DisableSignalsStop(i) /\ UNCHANGED <<casVars, onceVars, cfgVars>>
    \/ \E i \in LoopIds : DisableSignalsDrain(i) /\ UNCHANGED <<casVars, onceVars, cfgVars>>
    \/ \E i \in LoopIds : StartEndpoint(i) /\ UNCHANGED <<casVars, onceVars, cfgVars>>
    \/ \E i \in LoopIds : SessionSelect(i) /\ UNCHANGED <<casVars, onceVars, cfgVars>>
    \/ \E i \in LoopIds : SrvShutdown(i) /\ UNCHANGED <<casVars, onceVars, cfgVars>>
    \/ \E i \in LoopIds : ShutdownReturn(i) /\ UNCHANGED <<casVars, onceVars, cfgVars>>
    \/ \E i \in LoopIds : ShutdownDeadline(i) /\ UNCHANGED <<casVars, onceVars, cfgVars>>
    \/ \E i \in LoopIds : EndpointStopped(i) /\ UNCHANGED <<casVars, onceVars, cfgVars>>
    \/ \E i \in LoopIds : EndpointReturn(i) /\ UNCHANGED <<casVars, onceVars, cfgVars>>
    \/ \E i \in LoopIds : LoopCancelWait(i) /\ UNCHANGED <<casVars, onceVars, cfgVars>>
    \/ \E i \in LoopIds : LoopUnlock(i) /\ UNCHANGED <<casVars, onceVars, cfgVars>>
    \/ \E s \in SessIds : ListenerStart(s) /\ UNCHANGED <<casVars, onceVars, cfgVars>>
    \/ \E s \in SessIds : PreStartCall(s) /\ UNCHANGED <<casVars, onceVars, cfgVars>>
    \/ \E s \in SessIds : PreStartReturn(s) /\ UNCHANGED <<casVars, onceVars, cfgVars>>
    \/ \E s \in SessIds : ListenAndServe(s) /\ UNCHANGED <<casVars, onceVars, cfgVars>>
    \/ \E s \in SessIds : NetListen(s) /\ UNCHANGED <<casVars, onceVars, cfgVars>>
    \/ \E s \in SessIds : ServeReturn(s) /\ UNCHANGED <<casVars, onceVars, cfgVars>>
    \/ \E s \in SessIds : PostShutdownCall(s) /\ UNCHANGED <<casVars, onceVars, cfgVars>>
    \/ \E s \in SessIds : PostShutdownReturn(s) /\ UNCHANGED <<casVars, onceVars, cfgVars>>
    \/ \E s \in SessIds : CloseShutdown(s) /\ UNCHANGED <<casVars, onceVars, cfgVars>>
    \/ \E s \in SessIds : TimerFire(s) /\ UNCHANGED <<casVars, onceVars, cfgVars>>
    \/ \E s \in SessIds : Request(s) /\ UNCHANGED <<casVars, onceVars, cfgVars>>
    \/ \E s \in SessIds : RequestDone(s) /\ UNCHANGED <<casVars, onceVars, cfgVars>>

CasSpec == CasInit /\ [][CasNext]_vars

\* Scheduling: every goroutine that can take a step eventually takes one and
\* a running timeout timer eventually expires; the callers of Start and Stop
\* and the OS are under no obligation
CasFairSpec ==
    /\ CasSpec
    /\ \A i \in 1..MaxLoops :
         WF_vars(i \in LoopIds /\ CasLoopStep(i) /\ UNCHANGED <<onceVars, cfgVars>>)
    /\ \A s \in 1..MaxSessions :
         WF_vars(s \in SessIds /\ ListenerStep(s) /\ UNCHANGED <<casVars, onceVars, cfgVars>>)
    /\ \A s \in 1..MaxSessions :
         WF_vars(s \in SessIds /\ TimerFire(s) /\ UNCHANGED <<casVars, onceVars, cfgVars>>)

\* ===================================================================
\* Start()/Stop() variant with sync.Once (src/profiler.go, lines 1-205)
\* ===================================================================
MaxGos       == 4   \* goroutines spawned by Start()
MaxOnceStops == 3   \* Stop() calls
MaxOnceSess  == 1   \* sessions of all handlers together

\* New: once = new(sync.Once), stop and done unbuffered
OnceInit ==
    /\ running = FALSE
    /\ cancelled = <<>>
    /\ refused = FALSE
    /\ loops = <<>>
    /\ sessions = <<>>
    /\ port = 0
    /\ hookActive = 0
    /\ hookCalls = [h \in Hooks |-> [pre |-> 0, post |-> 0]]
    /\ trace = <<>>
    /\ started = 0
    /\ stops = <<>>
    /\ stopNoop = FALSE
    /\ once = 1
    /\ onces = <<"new">>
    /\ onceOf = <<>>
    /\ config = DefaultConfig
    /\ addrRet = NoAddress

\* Start(): go func() { ... }(); the goroutine's first step, the evaluation of
\* p.once (an unsynchronised read of the field), is taken with the spawn:
\* nothing observes a goroutine between the two
OnceStart ==
    /\ Len(loops) < MaxGos
    /\ loops' = Append(loops, [NewLoop(0) EXCEPT !.pc = "do"])
    /\ onceOf' = Append(onceOf, once)
    /\ UNCHANGED <<running, cancelled, refused, sessions, port, hookActive,
                   hookCalls, trace, casVars, once, onces>>

\* (*Once).Do(f) goes on when no other call is inside f: it runs f if f has
\* not been run, and returns otherwise
DoReady(st) == st \in {"new", "done"}

\* p.once.Do(p.handler)
OnceDo(i) ==
    LET o == onceOf[i] IN
    /\ loops[i].pc = "do"
    /\ DoReady(onces[o])
    /\ IF onces[o] = "done"
         THEN /\ loops' = [loops EXCEPT ![i].pc = "reset"]
              /\ UNCHANGED onces
         ELSE /\ loops' = [loops EXCEPT ![i].pc = "start"]
              /\ onces' = [onces EXCEPT ![o] = "running"]
    /\ UNCHANGED <<running, cancelled, refused, sessions, port, hookActive,
                   hookCalls, trace, casVars, once, onceOf>>

\* Stop(): p.stop <- struct{}{} meets case <-p.stop of handler i (either
\* select); the call goes on to <-p.done.  The unbuffered send completes only
\* with the receive and a call blocked in it is observed by nothing, so the
\* call is taken with the rendezvous
TakeStop(i) ==
    /\ Len(stops) < MaxOnceStops
    /\ stops' = Append(stops, [pc |-> "wait", by |-> i])

\* handler: case <-p.stop of the first select
OnceRecvStop(i) ==
    /\ loops[i].pc = "select"
    /\ TakeStop(i)
    /\ loops' = [loops EXCEPT ![i].pc = "stopStop"]
    /\ UNCHANGED <<running, cancelled, refused, sessions, port, hookActive,
                   hookCalls, trace, started, stopNoop, onceVars>>

\* handler: case <-sig of the first select
OnceRecvSignal(i) ==
    /\ Len(sessions) < MaxOnceSess
    /\ LoopRecvSignal(i)
    /\ UNCHANGED <<casVars, onceVars, cfgVars>>

\* handler: shutdown := make(...); srv; go func; timer := time.NewTimer
OnceStartEndpoint(i) ==
    /\ loops[i].pc = "startEndpoint"
    /\ sessions' = Append(sessions, NewSession(i))
    /\ loops' = [loops EXCEPT ![i].sid = Len(sessions) + 1, ![i].pc = "wait"]
    /\ UNCHANGED <<running, cancelled, refused, port, hookActive, hookCalls,
                   trace, casVars, onceVars>>

\* handler: case <-timer.C of the second select
OnceSelectTimer(i) ==
    LET s == loops[i].sid IN
    /\ loops[i].pc = "wait"
    /\ sessions[s].timer = "fired"
    /\ sessions' = [sessions EXCEPT ![s].cause = "timer"]
    /\ loops' = [loops EXCEPT ![i].pc = "shutdown"]
    /\ UNCHANGED <<running, cancelled, refused, port, hookActive, hookCalls,
                   trace, casVars, onceVars>>

\* handler: case <-shutdown of the second select (the start failed): the
\* timer is stopped and the loop goes on
OnceSelectFailed(i) ==
    LET s == loops[i].sid IN
    /\ loops[i].pc = "wait"
    /\ ShutdownClosed(s)
    /\ sessions' = [sessions EXCEPT ![s] = Returned(@)]
    /\ loops' = [loops EXCEPT ![i].pc = "notify"]
    /\ UNCHANGED <<running, cancelled, refused, port, hookActive, hookCalls,
                   trace, casVars, onceVars>>

\* handler: case <-p.stop of the second select; the timer is stopped
OnceSelectStop(i) ==
    LET s == loops[i].sid IN
    /\ loops[i].pc = "wait"
    /\ TakeStop(i)
    /\ sessions' = [sessions EXCEPT ![s].cause = "stop",
                      ![s].timer = IF @ = "running" THEN "stopped" ELSE @]
    /\ loops' = [loops EXCEPT ![i].pc = "shutdown"]
    /\ UNCHANGED <<running, cancelled, refused, port, hookActive, hookCalls,
                   trace, started, stopNoop, onceVars>>

\* handler: <-shutdown after shutdownEndpoint; then the loop goes on (timer)
\* or sends on p.done (stop)
OnceRecvShutdown(i) ==
    LET s == loops[i].sid IN
    /\ loops[i].pc = "recv"
    /\ ShutdownClosed(s)
    /\ sessions' = [sessions EXCEPT ![s] = Returned(@)]
    /\ loops' = [loops EXCEPT
                   ![i].pc = IF sessions[s].cause = "stop" THEN "cancelWait"
                                                           ELSE "notify"]
    /\ UNCHANGED <<running, cancelled, refused, port, hookActive, hookCalls,
                   trace, casVars, onceVars>>

\* handler: p.done <- struct{}{} is taken by a Stop() call waiting in
\* <-p.done, which returns
OnceSendDone(i) ==
    /\ loops[i].pc = "cancelWait"
    /\ \E k \in DOMAIN stops :
         /\ stops[k].pc = "wait"
         /\ stops' = [stops EXCEPT ![k].pc = "ret"]
    /\ loops' = [loops EXCEPT ![i].pc = "return"]
    /\ UNCHANGED <<running, cancelled, refused, sessions, port, hookActive,
                   hookCalls, trace, started, stopNoop, onceVars>>

\* handler returns: Do marks the Once object done and returns
OnceHandlerReturn(i) ==
    /\ loops[i].pc = "return"
    /\ onces' = [onces EXCEPT ![onceOf[i]] = "done"]
    /\ loops' = [loops EXCEPT ![i].pc = "reset"]
    /\ UNCHANGED <<running, cancelled, refused, sessions, port, hookActive,
                   hookCalls, trace, casVars, once, onceOf>>

\* p.once = new(sync.Once) (an unsynchronised write); the goroutine ends
OnceReset(i) ==
    /\ loops[i].pc = "reset"
    /\ onces' = Append(onces, "new")
    /\ once' = Len(onces) + 1
    /\ loops' = [loops EXCEPT ![i] = [NewLoop(0) EXCEPT !.pc = "done"]]
    /\ UNCHANGED <<running, cancelled, refused, sessions, port, hookActive,
                   hookCalls, trace, casVars, onceOf>>

OnceNext ==
    \/ OnceStart /\ UNCHANGED cfgVars
    \/ Signal /\ UNCHANGED <<casVars, onceVars, cfgVars>>
    \/ \E i \in LoopIds : OnceDo(i) /\ UNCHANGED cfgVars
    \/ \E i \in LoopIds : LoopStart(i) /\ UNCHANGED <<casVars, onceVars, cfgVars>>
    \/ \E i \in LoopIds : LoopNotify(i) /\ UNCHANGED <<casVars, onceVars, cfgVars>>
    \/ \E i \in LoopIds : OnceRecvSignal(i)
    \/ \E i \in LoopIds : OnceRecvStop(i) /\ UNCHANGED cfgVars
    \/ \E i \in LoopIds : DisableSignalsStop(i) /\ UNCHANGED <<casVars, onceVars, cfgVars>>
    \/ \E i \in LoopIds : DisableSignalsDrain(i) /\ UNCHANGED <<casVars, onceVars, cfgVars>>
    \/ \E i \in LoopIds : OnceStartEndpoint(i) /\ UNCHANGED cfgVars
    \/ \E i \in LoopIds : OnceSelectTimer(i) /\ UNCHANGED cfgVars
    \/ \E i \in LoopIds : OnceSelectFailed(i) /\ UNCHANGED cfgVars
    \/ \E i \in LoopIds : OnceSelectStop(i) /\ UNCHANGED cfgVars
    \/ \E i \in LoopIds : SrvShutdown(i) /\ UNCHANGED <<casVars, onceVars, cfgVars>>
    \/ \E i \in LoopIds : ShutdownReturn(i) /\ UNCHANGED <<casVars, onceVars, cfgVars>>
    \/ \E i \in LoopIds : ShutdownDeadline(i) /\ UNCHANGED <<casVars, onceVars, cfgVars>>
    \/ \E i \in LoopIds : OnceRecvShutdown(i) /\ UNCHANGED cfgVars
    \/ \E i \in LoopIds : OnceSendDone(i) /\ UNCHANGED cfgVars
    \/ \E i \in LoopIds : OnceHandlerReturn(i) /\ UNCHANGED cfgVars
    \/ \E i \in LoopIds : OnceReset(i) /\ UNCHANGED cfgVars
    \/ \E s \in SessIds : ListenerStart(s) /\ UNCHANGED <<casVars, onceVars, cfgVars>>
    \/ \E s \in SessIds : PreStartCall(s) /\ UNCHANGED <<casVars, onceVars, cfgVars>>
    \/ \E s \in SessIds : PreStartReturn(s) /\ UNCHANGED <<casVars, onceVars, cfgVars>>
    \/ \E s \in SessIds : ListenAndServe(s) /\ UNCHANGED <<casVars, onceVars, cfgVars>>
    \/ \E s \in SessIds : NetListen(s) /\ UNCHANGED <<casVars, onceVars, cfgVars>>
    \/ \E s \in SessIds : ServeReturn(s) /\ UNCHANGED <<casVars, onceVars, cfgVars>>
    \/ \E s \in SessIds : PostShutdownCall(s) /\ UNCHANGED <<casVars, onceVars, cfgVars>>
    \/ \E s \in SessIds : PostShutdownReturn(s) /\ UNCHANGED <<casVars, onceVars, cfgVars>>
    \/ \E s \in SessIds : CloseShutdown(s) /\ UNCHANGED <<casVars, onceVars, cfgVars>>
    \/ \E s \in SessIds : TimerFire(s) /\ UNCHANGED <<casVars, onceVars, cfgVars>>
    \/ \E s \in SessIds : Request(s) /\ UNCHANGED <<casVars, onceVars, cfgVars>>
    \/ \E s \in SessIds : RequestDone(s) /\ UNCHANGED <<casVars, onceVars, cfgVars>>

OnceSpec == OnceInit /\ [][OnceNext]_vars

\* ===================================================================
\* Configuration and Address() (context-based variant)
\* ===================================================================
\* the listen addresses New is called with
Addresses == {defaultListen, "127.0.0.1:6060"}

\* New(WithAddress(a)): the options are applied to the defaults
CfgInit ==
    /\ running = FALSE
    /\ cancelled = <<>>
    /\ refused = FALSE
    /\ loops = <<>>
    /\ sessions = <<>>
    /\ port = 0
    /\ hookActive = 0
    /\ hookCalls = [h \in Hooks |-> [pre |-> 0, post |-> 0]]
    /\ trace = <<>>
    /\ started = 0
    /\ stops = <<>>
    /\ stopNoop = FALSE
    /\ once = 0
    /\ onces = <<>>
    /\ onceOf = <<>>
    /\ config \in {WithAddress(DefaultConfig, a) : a \in Addresses}
    /\ addrRet = NoAddress

\* what the Profiler is doing: serving while a server listens, watching
\* while a watch loop holds the lock, else not running
Phase ==
    IF \E s \in SessIds : sessions[s].lis = "open" THEN "serving"
    ELSE IF running THEN "watching"
    ELSE "not running"

\* mutant: the accessor returns the default address
Address_Default(cfg) == defaultListen

\* Address() returns p.address
Address(cfg) == cfg.address

\* a call of Address(); the caller keeps the result
AddressCall ==
    /\ addrRet' = [val |-> Address(config), at |-> Phase]
    /\ UNCHANGED <<running, cancelled, refused, loops, sessions, port,
                   hookActive, hookCalls, trace, casVars, onceVars, config>>

CfgNext ==
    \/ Next
    \/ AddressCall

CfgSpec == CfgInit /\ [][CfgNext]_vars

\* ===================================================================
\* Properties
\* ===================================================================
Count(S) == Cardinality(S)

\* positions of the events with message m in a sequence of events
EvtsOf(q, m) == {k \in DOMAIN q : q[k].msg = m}

\* the goroutine that runs startEndpoint for session s
LoopOf(s) == sessions[s].loop

AllPre(s)  == \A h \in Hooks : sessions[s].pre[h] = 1
AllPost(s) == \A h \in Hooks : sessions[s].post[h] = 1

\* a watch loop is active from its "start profiler signal handler" event
\* until its goroutine returns
ActiveLoops == {i \in LoopIds : loops[i].pc \notin {"start", "done"}}

\* sessions whose listener goroutine has not ended
InFlight == {s \in SessIds : sessions[s].lpc # "end"}

\* sessions whose startEndpoint call has returned
ReturnedSessions == {s \in SessIds : sessions[s].ret}

\* C1: at most one watch-loop goroutine is active at any time, whatever the
\* interleaving of Start(ctx) calls and cancellations
C1_OneWatchLoop == Count(ActiveLoops) <= 1

\* a Start call was refused while a watch loop is active
C1_Witness ==
    /\ refused
    /\ ActiveLoops # {}

\* C2: at most one session is in flight, and a loop that has (re-)subscribed
\* to the signal, or is about to, has no session whose listener goroutine is
\* alive or whose PostShutdown hooks have not all returned
C2_OneSession ==
    /\ Count(InFlight) <= 1
    /\ \A i \in LoopIds :
         (loops[i].sub \/ loops[i].pc = "notify") =>
            /\ InFlight = {}
            /\ \A h \in Hooks : hookCalls[h].post = Len(sessions)

\* a loop waits for the signal again after its first session
C2_Witness ==
    \E i \in LoopIds :
      /\ loops[i].pc = "select"
      /\ loops[i].sub
      /\ loops[i].sid > 0
      /\ Len(sessions) = 1

\* every hook's PostShutdown has run exactly once for every session that has
\* returned, at most once for the session in flight, and never more often
\* than its PreStart
PostOncePerSession ==
    \A h \in Hooks :
      /\ \A s \in SessIds : sessions[s].post[h] <= sessions[s].pre[h]
      /\ \A s \in SessIds : sessions[s].pre[h] <= 1
      /\ hookCalls[h].post =
           Count(ReturnedSessions)
             + Count({s \in SessIds \ ReturnedSessions : sessions[s].post[h] = 1})

\* the PreStart hooks of session s have run, its PostShutdown hooks not yet
PostPending(s) == AllPre(s) /\ ~(AllPost(s) /\ sessions[s].lpc = "end")

\* C3: a session whose PreStart hooks have run eventually has every hook's
\* PostShutdown run, exactly once, whether the bind failed or not and whether
\* the timer or the cancellation ended it (sessions run one at a time, so
\* "some session is pending" leads to "none is" iff each one completes)
C3_PostShutdownOnce ==
    /\ []PostOncePerSession
    /\ (\E s \in SessIds : PostPending(s))
          ~> (\A s \in SessIds : ~PostPending(s))

\* a second session ended by the timer after a bind failure, all hooks run
C3_Witness ==
    /\ Len(sessions) = 2
    /\ sessions[2].err = ErrBind
    /\ sessions[2].cause = "timer"
    /\ sessions[2].lpc = "end"
    /\ AllPost(2)

\* C4: a server that listens, holds the address or has served a request
\* belongs to a session whose PreStart hooks have all returned
C4_PreStartBeforeListen ==
    \A s \in SessIds :
      (sessions[s].lis # "none" \/ sessions[s].served \/ port = s
         \/ sessions[s].lpc \in {"listen", "bind", "serve"}) => AllPre(s)

\* a request was served by a session
C4_Witness ==
    \E s \in SessIds : sessions[s].served /\ sessions[s].conns > 0 /\ AllPre(s)

\* C5: every watch loop emits its start event once, a watch loop is spawned
\* only when all earlier ones have returned, and a Start call made while a
\* watch loop exists spawns nothing and emits nothing
C5_StartOnce ==
    /\ [](/\ Count(EvtsOf(trace, MsgStartHandler))
               = Count({i \in LoopIds : loops[i].pc # "start"})
          /\ \A i \in LoopIds :
               Count({k \in EvtsOf(trace, MsgStartHandler) : trace[k].id = i}) <= 1
          /\ Len(loops) <= Count({i \in LoopIds : loops[i].pc = "done"}) + 1)
    /\ [][refused' # refused => UNCHANGED <<loops, trace, running>>]_vars

\* two Start calls, one watch loop, one start event
C5_Witness ==
    /\ refused
    /\ Len(loops) = 1
    /\ Count(EvtsOf(trace, MsgStartHandler)) = 1

\* the start and stop events of the watch loops, in emission order
HandlerEvents ==
    SelectSeq(trace, LAMBDA e : e.msg \in {MsgStartHandler, MsgStopHandler})

\* C6: the start and stop events alternate, beginning with a start, the k-th
\* pair belonging to the k-th watch loop; after N cycles there are N of each
C6_Alternating ==
    /\ \A k \in DOMAIN HandlerEvents :
         /\ HandlerEvents[k].msg =
              IF k % 2 = 1 THEN MsgStartHandler ELSE MsgStopHandler
         /\ HandlerEvents[k].id = (k + 1) \div 2
    /\ (\A i \in LoopIds : loops[i].pc = "done") =>
         /\ Count(EvtsOf(trace, MsgStartHandler)) = Len(loops)
         /\ Count(EvtsOf(trace, MsgStopHandler)) = Len(loops)

\* two complete Start/Stop cycles
C6_Witness ==
    /\ Len(loops) = 2
    /\ \A i \in LoopIds : loops[i].pc = "done"
    /\ Len(HandlerEvents) = 4

\* startEndpoint of session s waits in its select, the context cancelled and
\* the timer not expired
CancelledWaiting(s) ==
    /\ loops[LoopOf(s)].pc = "wait"
    /\ loops[LoopOf(s)].sid = s
    /\ CtxDone(LoopOf(s))
    /\ sessions[s].timer = "running"

\* startEndpoint of session s is about to return: Shutdown was called, the
\* listener goroutine has ended and every PostShutdown hook has run
Completed(s) ==
    /\ loops[LoopOf(s)].pc = "return"
    /\ loops[LoopOf(s)].sid = s
    /\ sessions[s].inShutdown
    /\ sessions[s].lpc = "end"
    /\ AllPost(s)

\* C7: a session whose context is cancelled while it waits, its timer not
\* expired, is shut down and completes with PostShutdown run, although the
\* timer is never obliged to expire
C7_CancelShutsDown ==
    (\E s \in SessIds : CancelledWaiting(s))
       ~> (\E s \in SessIds : Completed(s))

\* a session that served was shut down by the cancellation, its timer stopped
\* before it expired, and has completed
C7_Witness ==
    \E s \in SessIds :
      /\ sessions[s].cause = "ctx"
      /\ sessions[s].timer = "stopped"
      /\ sessions[s].lis = "closed"
      /\ loops[LoopOf(s)].pc = "return"
      /\ AllPost(s)

\* the Error events "start debug endpoint" of session s
StartErrors(s) ==
    {k \in EvtsOf(sessions[s].evts, MsgStartEndpoint) :
       sessions[s].evts[k].type = ErrorEvent}

\* the sessions whose listener failed to bind
BindFailed == {s \in SessIds : sessions[s].err = ErrBind}

\* a loop whose session has returned waits for the signal again
Resubscribed ==
    \E i \in LoopIds :
      /\ loops[i].pc = "select"
      /\ loops[i].sub
      /\ loops[i].sid > 0
      /\ sessions[loops[i].sid].ret

\* C8: a session whose listener failed to bind has emitted one Error event
\* (and no other session has), has served nothing and never held the address;
\* its PostShutdown hooks have all run when startEndpoint returns, and the
\* watch loop then goes on to subscribe to the signal again
C8_BindFailure ==
    /\ [](\A s \in SessIds :
            /\ Count(StartErrors(s)) = IF s \in BindFailed THEN 1 ELSE 0
            /\ s \in BindFailed =>
                 /\ ~sessions[s].served
                 /\ sessions[s].lis = "none"
                 /\ port # s
                 /\ loops[LoopOf(s)].pc \in
                      {"wait", "shutdown", "shutWait", "recv", "return"}
                 /\ loops[LoopOf(s)].pc = "return" => Completed(s))
    /\ [][\A i \in LoopIds :
            (loops[i].pc = "return" /\ loops'[i].pc # "return")
               => loops'[i].pc = "notify"]_vars
    /\ (BindFailed # {}) ~> (BindFailed = {} /\ Resubscribed)

\* a session that failed to bind is about to return, its hooks run, the
\* context not cancelled
C8_Witness ==
    \E s \in SessIds :
      /\ sessions[s].err = ErrBind
      /\ loops[LoopOf(s)].pc = "return"
      /\ AllPost(s)
      /\ ~CtxDone(LoopOf(s))

\* C9: once the listener goroutine of a session that failed to bind has
\* ended, startEndpoint can go on without the timer or the context
C9_BindFailureSkipsRace ==
    \A i \in LoopIds :
      (/\ loops[i].pc = "wait"
       /\ sessions[loops[i].sid].err = ErrBind
       /\ sessions[loops[i].sid].done) => ENABLED LoopStep(i)

\* C10: with the context not cancelled a session is shut down by its timer
\* only; it then ends and the loop subscribes again; a signal received then
\* starts the next session, and session s is the s-th round of PreStart and
\* PostShutdown
C10_TimerRestart ==
    /\ [](\A s \in SessIds :
            (sessions[s].inShutdown /\ ~CtxDone(LoopOf(s))) =>
               (sessions[s].cause = "timer" /\ sessions[s].timer = "fired"))
    /\ [](\A i \in LoopIds :
            loops[i].pc = "return" =>
               /\ AllPre(loops[i].sid) /\ AllPost(loops[i].sid)
               /\ \A h \in Hooks :
                    hookCalls[h] = [pre |-> loops[i].sid, post |-> loops[i].sid])
    /\ (\E s \in SessIds : ~sessions[s].ret /\ ~CtxDone(LoopOf(s)))
          ~> (Resubscribed \/ \E i \in LoopIds : CtxDone(i))
    /\ (\E i \in LoopIds :
           loops[i].pc = "select" /\ loops[i].sigC > 0 /\ ~CtxDone(i))
          ~> (\E i \in LoopIds : loops[i].pc = "wait" \/ CtxDone(i))

\* the second session of a loop whose context was never cancelled has served
\* and been shut down by its timer, the hooks called a second time
C10_Witness ==
    /\ Len(sessions) = 2
    /\ Len(loops) = 1
    /\ \A c \in Ctxs : ~cancelled[c]
    /\ loops[1].pc = "return"
    /\ sessions[2].cause = "timer"
    /\ sessions[2].served
    /\ \A h \in Hooks : hookCalls[h] = [pre |-> 2, post |-> 2]
\* the stop events of watch loop i
StopEventsOf(i) ==
    {k \in EvtsOf(trace, MsgStopHandler) : trace[k].id = i}

\* the watch loops that are running (spawned, not yet returned) with their
\* caller's context cancelled
CancelledLoops ==
    {i \in LoopIds : loops[i].pc # "done" /\ cancelled[loops[i].ctx]}

\* C11: a running watch loop whose context is cancelled eventually returns
\* (loops run one at a time, so "some cancelled loop runs" leads to "none
\* does" iff each one returns); a loop that is past its wg.Wait() has emitted
\* exactly one stop event and every session has returned, its listener
\* goroutine ended and all hooks run; no loop emits more than one stop event
C11_CancelExits ==
    /\ [](\A i \in LoopIds :
            /\ Count(StopEventsOf(i)) <= 1
            /\ loops[i].pc \in {"unlock", "done"} =>
                 /\ Count(StopEventsOf(i)) = 1
                 /\ \A s \in SessIds :
                      sessions[s].loop = i =>
                        sessions[s].ret /\ sessions[s].lpc = "end"
            /\ loops[i].pc = "unlock" =>
                 /\ hookActive = 0
                 /\ \A h \in Hooks :
                      hookCalls[h] = [pre |-> Len(sessions), post |-> Len(sessions)])
    /\ (CancelledLoops # {}) ~> (CancelledLoops = {})

\* a watch loop has returned after its context was cancelled, a session of it
\* drained before
C11_Witness ==
    \E i \in LoopIds :
      /\ loops[i].pc = "done"
      /\ cancelled[loops[i].ctx]
      /\ \E s \in SessIds : sessions[s].loop = i /\ sessions[s].ret
      /\ Count(StopEventsOf(i)) = 1

\* C12: the select of the watch loop never takes the signal when its context
\* is already done, so no session is started once the context is cancelled
C12_NoSessionAfterCancel ==
    [][\A i \in LoopIds :
         (loops[i].pc = "select" /\ loops'[i].pc = "sigStop") => ~CtxDone(i)]_vars

\* C13: outside its select and its disableSignals call a watch loop is not
\* subscribed and its signal channel is empty: a signal buffered after the
\* triggering one was taken is gone when disableSignals has returned, so
\* nothing is left to trigger a session after the current one; the channel
\* is filled only while the loop is subscribed
C13_StaleSignalDiscarded ==
    /\ [](\A i \in LoopIds :
            /\ loops[i].pc \notin {"select", "sigStop", "stopStop",
                                   "sigDrain", "stopDrain"} =>
                 (loops[i].sigC = 0 /\ ~loops[i].sub)
            /\ loops[i].pc \in {"sigDrain", "stopDrain"} => ~loops[i].sub
            /\ loops[i].sigC <= SigCap)
    /\ [][\A i \in LoopIds :
            (i \in DOMAIN loops' /\ loops'[i].sigC > loops[i].sigC) =>
               (loops[i].sub /\ loops[i].pc \in {"select", "sigStop", "stopStop"})]_vars

\* a second signal was buffered after the first was taken; signal.Stop has
\* acted and the drain is about to discard it
C13_Witness ==
    \E i \in LoopIds :
      /\ loops[i].pc = "sigDrain"
      /\ loops[i].sigC = 1
      /\ ~loops[i].sub

\* C19: a Start call returns without spawning a watch loop only while a
\* watch loop with a live context is running; a call made after the running
\* loop's context was cancelled always gets its loop (a refused call leaves
\* nothing behind that could start one later)
C19_StartAfterCancelNotLost ==
    [][(refused' /\ ~refused) =>
          \E i \in LoopIds : loops[i].pc # "done" /\ ~cancelled[loops[i].ctx]]_vars

\* the PostShutdown loop of session s has begun
PostBegun(s) ==
    \/ sessions[s].lpc = "postRet"
    \/ \E h \in Hooks : sessions[s].post[h] > 0

\* C20: while startEndpoint of a session has not returned, a PostShutdown
\* hook of that session has been called only if the bind failed, or
\* srv.Shutdown has returned, or at least no request is in flight: the
\* hooks never run while the server drains
C20_PostShutdownAfterDrain ==
    \A s \in SessIds :
      (~sessions[s].ret /\ PostBegun(s) /\ sessions[s].err # ErrBind)
         => \/ loops[LoopOf(s)].pc \in {"recv", "return"}
            \/ sessions[s].conns = 0

\* the loops that have taken the message of a Stop() call
StoppedLoops ==
    {i \in LoopIds : loops[i].pc \in {"stopStop", "stopDrain", "cancelWait",
                                      "unlock", "done"}}

\* C14 (Start()/Stop() variant): a Stop() call that finds the Profiler not
\* started changes nothing, emits nothing and blocks on nothing; a Start()
\* call that finds it started spawns nothing; the Stop() calls that pass
\* their test never outnumber the Start() calls that passed theirs, and
\* every one of them accounts for exactly one stop event and one loop exit
C14_StopIdempotent ==
    /\ [](/\ Len(stops) <= Len(loops)
          /\ Len(loops) <= Len(stops) + 1
          /\ started = Len(loops) - Len(stops)
          /\ Count(EvtsOf(trace, MsgStopHandler)) = Count(StoppedLoops)
          /\ Count(StoppedLoops) = Count({k \in DOMAIN stops : stops[k].pc = "ret"})
          /\ \A i \in LoopIds : Count(StopEventsOf(i)) <= 1)
    /\ [][stopNoop' # stopNoop =>
            (started = 0 /\ UNCHANGED <<running, loops, sessions, trace,
                                        started, stops>>)]_vars
    /\ [][refused' # refused =>
            (started = 1 /\ UNCHANGED <<running, loops, sessions, trace,
                                        started, stops>>)]_vars

\* a Start() was refused, a Stop() stopped the one loop, which has exited
\* with one stop event, and another Stop() found nothing to stop
C14_Witness ==
    /\ refused
    /\ stopNoop
    /\ Len(loops) = 1
    /\ loops[1].pc = "done"
    /\ Len(stops) = 1
    /\ stops[1].pc = "ret"
    /\ Count(EvtsOf(trace, MsgStopHandler)) = 1

\* the Stop() calls that have not returned
BlockedStops == {k \in DOMAIN stops : stops[k].pc # "ret"}

\* a Stop() call is blocked in its send while startEndpoint of session s
\* waits in its select, the timer not expired
StopDuringSession(s) ==
    /\ BlockedStops # {}
    /\ ~sessions[s].ret
    /\ loops[LoopOf(s)].pc = "wait"
    /\ sessions[s].timer = "running"

\* C15 (Start()/Stop() variant): while a Stop() call is pending and a
\* session waits in its select with the timer not expired, the select can
\* return and the shutdown begin
C15_StopShutsDown ==
    \A s \in SessIds :
      StopDuringSession(s) => ENABLED SessionSelect(LoopOf(s))

\* C16 (Start()/Stop() variant): every Stop() call eventually returns: the
\* calls that find nothing to stop return at once (C14), and, the number of
\* calls being bounded, "some call is blocked in its send" leads to "none
\* is" iff every blocked call eventually returns
C16_StopReturns == (BlockedStops # {}) ~> (BlockedStops = {})

\* two Start/Stop cycles: both Stop() calls have returned, a session was
\* run, and the second loop, spawned while the first held the mutex, has
\* taken its stop message
C16_Witness ==
    /\ Len(stops) = 2
    /\ \A k \in DOMAIN stops : stops[k].pc = "ret"
    /\ Len(loops) = 2
    /\ stops[2].by = 2
    /\ Len(sessions) >= 1


\* goroutines of Start() that are inside p.handler (sync.Once variant): Do
\* has begun to run the function and the function has not returned
InHandler == {i \in LoopIds : loops[i].pc \notin {"do", "reset", "done"}}

\* C18: sync.Once variant: under every interleaving of Start and Stop calls
\* and of the resets p.once = new(sync.Once), at most one handler loop is
\* executing at any time
C18_OneHandler == Count(InHandler) <= 1

\* C17: variants with a blocking Stop(): in the step in which a Stop() call
\* returns, no session of the handler that took its stop message is in
\* flight: the listener goroutine of each has ended, all PostShutdown hooks
\* done
C17_StopAfterDrain ==
    [][\A k \in DOMAIN stops :
         (stops[k].pc # "ret" /\ stops'[k].pc = "ret")
            => \A s \in DOMAIN sessions' :
                 sessions'[s].loop = stops'[k].by => sessions'[s].lpc = "end"]_vars

\* a hook call of session s is executing
InHook(s) == sessions[s].lpc \in {"preRet", "postRet"}

\* C21: hooks (numbered in registration order) run one after the other in
\* that order: at most one hook call of the Profiler executes at any time; in
\* a session no hook is called twice, hook h's PreStart has returned before
\* that of hook h+1 begins, likewise for PostShutdown, and every PreStart has
\* returned before the first PostShutdown begins
C21_HooksSequential ==
    /\ hookActive = Count({s \in SessIds : InHook(s)})
    /\ hookActive <= 1
    /\ \A s \in SessIds :
         /\ \A h \in Hooks : sessions[s].pre[h] <= 1 /\ sessions[s].post[h] <= 1
         /\ \A h \in Hooks \ {1} :
              /\ sessions[s].pre[h] = 1 => sessions[s].pre[h - 1] = 1
              /\ sessions[s].post[h] = 1 => sessions[s].post[h - 1] = 1
         /\ sessions[s].lpc = "preRet" =>
              \A h \in Hooks : sessions[s].pre[h] = 1 <=> h < sessions[s].hk
         /\ sessions[s].lpc = "postRet" =>
              \A h \in Hooks : sessions[s].post[h] = 1 <=> h < sessions[s].hk
         /\ PostBegun(s) => AllPre(s)

\* the second hook's PostShutdown executes in the second session: both hooks'
\* PreStart and the first hook's PostShutdown have returned
C21_Witness ==
    /\ Len(sessions) = 2
    /\ sessions[2].lpc = "postRet"
    /\ sessions[2].hk = 2
    /\ sessions[2].post[1] = 1
    /\ AllPre(2)
    /\ hookActive = 1

\* C22: startEndpoint returns only when the listener goroutine of its session
\* has ended (every PostShutdown returned, shutdown closed); hence whenever
\* the running lock is free, and for every watch loop that has returned, no
\* listener goroutine is alive
C22_NoListenerLeak ==
    /\ \A i \in LoopIds :
         loops[i].pc = "return" =>
            /\ sessions[loops[i].sid].lpc = "end"
            /\ sessions[loops[i].sid].done
            /\ AllPost(loops[i].sid)
    /\ \A s \in SessIds : sessions[s].ret => sessions[s].lpc = "end"
    /\ \A s \in SessIds : loops[LoopOf(s)].pc = "done" => sessions[s].lpc = "end"
    /\ ~running => InFlight = {}

\* a watch loop that ran a session has returned and released the lock
C22_Witness ==
    /\ ~running
    /\ \E s \in SessIds : sessions[s].ret /\ loops[LoopOf(s)].pc = "done"

\* the context passed to the Start call of the loop of session s is cancelled
SessionCtxCancelled(s) == cancelled[loops[LoopOf(s)].ctx]

\* C23: srv.Shutdown of a session is called only when the session's timeout
\* timer has expired or its context is cancelled, and the select of
\* startEndpoint has returned for that reason; a further signal, another
\* Start call or a bind failure never makes it begin
C23_ShutdownOnlyByTimerOrCancel ==
    /\ [](\A s \in SessIds :
            /\ sessions[s].cause = "timer" => sessions[s].timer = "fired"
            /\ sessions[s].cause = "ctx" => SessionCtxCancelled(s)
            /\ sessions[s].inShutdown => sessions[s].cause \in {"timer", "ctx"})
    /\ [][\A s \in SessIds :
            (~sessions[s].inShutdown /\ sessions'[s].inShutdown)
               => /\ sessions[s].timer = "fired" \/ SessionCtxCancelled(s)
                  /\ sessions[s].cause \in {"timer", "ctx"}
                  /\ loops[LoopOf(s)].pc = "shutdown"]_vars

\* srv.Shutdown was called for a session whose bind had failed before, when
\* its timer expired; a Start call had been refused
C23_Witness ==
    \E s \in SessIds :
      /\ sessions[s].inShutdown
      /\ sessions[s].cause = "timer"
      /\ sessions[s].err = ErrBind
      /\ refused

\* sessions whose srv.Shutdown returned an error and whose startEndpoint call
\* has not returned yet
DeadlineSessions == {s \in SessIds : sessions[s].sderr /\ ~sessions[s].ret}

\* C24: a session has the Error event "shutdown debug endpoint", once, iff
\* its srv.Shutdown ran into the deadline; such a session still ends:
\* startEndpoint returns, after the PostShutdown hooks, and the watch loop
\* subscribes to the signal again (and from there exits if cancelled)
C24_DeadlineReported ==
    /\ [](\A s \in SessIds :
            /\ sessions[s].sderr =>
                 /\ Count(EvtsOf(sessions[s].evts, MsgShutdownErr)) = 1
                 /\ \A k \in EvtsOf(sessions[s].evts, MsgShutdownErr) :
                      sessions[s].evts[k].type = ErrorEvent
            /\ ~sessions[s].sderr => EvtsOf(sessions[s].evts, MsgShutdownErr) = {})
    /\ [][\A s \in DeadlineSessions :
            sessions'[s].ret => sessions[s].lpc = "end" /\ AllPost(s)]_vars
    /\ (DeadlineSessions # {})
         ~> (/\ DeadlineSessions = {}
             /\ \E i \in LoopIds : loops[i].pc = "select" /\ loops[i].sub)

\* srv.Shutdown has returned an error, a connection is still open, the
\* listener goroutine has ended and startEndpoint is about to return
C24_Witness ==
    \E s \in SessIds :
      /\ sessions[s].sderr
      /\ sessions[s].conns > 0
      /\ sessions[s].lpc = "end"
      /\ loops[LoopOf(s)].pc = "return"

\* C25: once startEndpoint of a session has returned, no connection accepted
\* by the server of that session is open: what the graceful drain left is
\* closed by force when its deadline has passed
C25_NoConnAfterSession ==
    \A s \in SessIds : sessions[s].ret => sessions[s].conns = 0

\* C26: no step changes the Profiler's signal, address, timeout, hook list
\* or event handler; an Address() call changes nothing of the Profiler and
\* returns the configured address, whether the Profiler is not running,
\* watching or serving
C26_ConfigImmutable ==
    /\ [][config' = config]_vars
    /\ [][addrRet' # addrRet =>
            UNCHANGED <<running, cancelled, refused, loops, sessions, port,
                        hookActive, hookCalls, trace, casVars, onceVars,
                        config>>]_vars
    /\ [](config \in {WithAddress(DefaultConfig, a) : a \in Addresses})
    /\ [](addrRet # NoAddress => addrRet.val = config.address)

\* Address() was called while the endpoint served on an address that is not
\* the default, after a session had already come and gone
C26_Witness ==
    /\ addrRet.at = "serving"
    /\ addrRet.val = "127.0.0.1:6060"
    /\ Len(sessions) = 2

\* positions of the Info events with message m among the events of session s
InfoEvtsOf(s, m) ==
    {k \in EvtsOf(sessions[s].evts, m) : sessions[s].evts[k].type = InfoEvent}

\* C27: among the events of a session the Info event "start debug
\* endpoint" precedes the Info event "stop debug endpoint", and "debug
\* endpoint stopped" is the last event, emitted when every PostShutdown hook
\* of the session has returned
C27_SessionEventOrder ==
    \A s \in SessIds :
      /\ \A k \in InfoEvtsOf(s, MsgStopEndpoint) :
           \E j \in InfoEvtsOf(s, MsgStartEndpoint) : j < k
      /\ \A k \in InfoEvtsOf(s, MsgEndpointStopped) :
           /\ k = Len(sessions[s].evts)
           /\ AllPost(s)

\* the watch-loop goroutines that exist
LiveLoops == {i \in LoopIds : loops[i].pc # "done"}

\* C28: the running lock is held exactly while a watch-loop goroutine
\* exists, there is never more than one, and a Start(ctx) call returns
\* without spawning a watch loop only while one exists
C28_LockWhileLoop ==
    /\ [](running <=> LiveLoops # {})
    /\ [](Count(LiveLoops) <= 1)
    /\ [][refused' # refused => LiveLoops # {} /\ running]_vars
    /\ [][(running /\ ~running') => LiveLoops' = {}]_vars
    /\ [][(~running /\ running') => Count(LiveLoops') = 1 /\ LiveLoops = {}]_vars

\* the first watch loop has run a session, was cancelled and has returned;
\* a Start call made then has spawned the second, which holds the lock
C28_Witness ==
    /\ Len(loops) = 2
    /\ loops[1].pc = "done"
    /\ loops[2].pc # "done"
    /\ running
    /\ \E s \in SessIds : LoopOf(s) = 1 /\ sessions[s].ret

\* C29: Start()/Stop() variant: the events of the loops come in blocks
\* "start profiler signal handler", "stop profiler signal handler",
\* "profiler signal handler stopped" of one loop each: the start event of a
\* loop never precedes the stopped event of the loop before it, whatever the
\* interleaving of Start and Stop calls
C29_LoopEventsInBlocks ==
    /\ \A k \in DOMAIN trace :
         /\ k % 3 = 1 => trace[k].msg = MsgStartHandler
         /\ k % 3 = 2 => /\ trace[k].msg = MsgStopHandler
                         /\ trace[k].id = trace[k - 1].id
         /\ k % 3 = 0 => /\ trace[k].msg = MsgHandlerStopped
                         /\ trace[k].id = trace[k - 1].id
    /\ \A j, k \in EvtsOf(trace, MsgStartHandler) :
         trace[j].id = trace[k].id => j = k

\* Start was called while the Stop call before it was still to be served:
\* the first loop has emitted its stopped event and still holds the mutex,
\* the second start goroutine waits in Lock
C29_Witness ==
    /\ Len(loops) = 2
    /\ loops[1].pc = "unlock"
    /\ loops[2].pc = "lock"
    /\ Len(trace) = 3
    /\ started = 1

====
